---- MODULE Spec2Model ----
(***************************************************************************)
(* Model of the campaign dashboard.  ContactUpload.tsx: the file picker    *)
(* handler handleFileUpload and the asynchronous processFile, with the CSV *)
(* parsing, header resolution, e-mail validation and row loop translated   *)
(* from the source, then the campaign selector and uploadContacts against  *)
(* the tables of the migration.  Index.tsx and AdminAuth: the password     *)
(* form, the tabs and logout.  CampaignManager.tsx: its handlers, each     *)
(* split at its await, with the store serving their requests.  Text is     *)
(* modelled as TLA+ strings, read character by character with SubSeq.      *)
(***************************************************************************)
EXTENDS Integers, Sequences, FiniteSets, TLC

VARIABLES
    fileInput,        \* the <input id="file-upload"> element's selected file
    file,             \* useState file
    contacts,         \* useState contacts
    validContacts,    \* useState validContacts
    invalidContacts,  \* useState invalidContacts
    isProcessing,     \* useState isProcessing
    uploadProgress,   \* useState uploadProgress (a rational, see Ratio)
    toast,            \* the notification most recently issued through toast()
    pc,               \* position of the processFile activation
    frame,            \* locals of the processFile activation
    selectedCampaign, \* useState selectedCampaign of ContactUpload
    campaigns,        \* useState campaigns of ContactUpload (the selector's items)
    fetchPending,     \* the fetchCampaigns request of ContactUpload is in flight
    uploadPc,         \* position of the uploadContacts activation
    uploadFrame,      \* closure and locals of the uploadContacts activation
    store,            \* the Data Store: tables campaigns and contacts
    isAuthenticated,  \* useState isAuthenticated of Index
    adminFlag,        \* localStorage item "admin_authenticated"
    activeTab,        \* useState activeTab of Index
    password,         \* useState password of AdminAuth
    managerCampaigns, \* useState campaigns of CampaignManager
    managerLoading,   \* useState isLoading of CampaignManager
    isCreateDialogOpen, \* useState isCreateDialogOpen of CampaignManager
    newCampaign,      \* useState newCampaign of CampaignManager
    requests,         \* CampaignManager handlers awaiting the Data Store
    issued            \* how many requests CampaignManager has sent to the Data Store

ingestionVars == <<fileInput, file, contacts, validContacts, invalidContacts,
                   isProcessing, uploadProgress, toast, pc, frame>>

submissionVars == <<selectedCampaign, campaigns, fetchPending, uploadPc, uploadFrame>>

shellVars == <<isAuthenticated, adminFlag, activeTab, password>>

managerVars == <<managerCampaigns, managerLoading, isCreateDialogOpen, newCampaign, requests,
                 issued>>

vars == <<ingestionVars, submissionVars, store, shellVars, managerVars>>

\* what processFile and handleFileUpload never touch
outsideIngestion == <<submissionVars, store, shellVars, managerVars>>

-----------------------------------------------------------------------------
(* Bounds of the explored inputs                                           *)

MaxDataRows == 2

\* longest string on which validateEmail is compared with the address shape
MaxProbeLen == 6

\* most requests CampaignManager sends to the store in a run
MaxRequests == 3

\* most campaign ids the store generates
MaxCampaigns == 2

\* the longest cell of the files that probe the parsing of one cell
MaxCellLen == 3

-----------------------------------------------------------------------------
(* Strings                                                                 *)

Char(s, i) == SubSeq(s, i, i)

Drop(s, n) == SubSeq(s, n + 1, Len(s))

\* String.prototype.trim: the white space a cell of the explored files can hold
IsWhitespace(c) == c \in {" ", "\t", "\r", "\n"}

RECURSIVE TrimStart(_)
TrimStart(s) ==
    IF Len(s) > 0 /\ IsWhitespace(Char(s, 1)) THEN TrimStart(Drop(s, 1)) ELSE s

RECURSIVE TrimEnd(_)
TrimEnd(s) ==
    IF Len(s) > 0 /\ IsWhitespace(Char(s, Len(s)))
    THEN TrimEnd(SubSeq(s, 1, Len(s) - 1))
    ELSE s

Trim(s) == TrimEnd(TrimStart(s))

\* position of the first occurrence of the character d in s at or after from, 0 when none
RECURSIVE IndexOfCharFrom(_, _, _)
IndexOfCharFrom(s, d, from) ==
    IF from > Len(s) THEN 0
    ELSE IF Char(s, from) = d THEN from
    ELSE IndexOfCharFrom(s, d, from + 1)

IndexOfChar(s, d) == IndexOfCharFrom(s, d, 1)

\* String.prototype.split with a one-character separator
RECURSIVE Split(_, _)
Split(s, d) ==
    LET i == IndexOfChar(s, d)
    IN  IF i = 0 THEN <<s>>
        ELSE <<SubSeq(s, 1, i - 1)>> \o Split(Drop(s, i), d)

\* String.prototype.includes
Includes(s, sub) ==
    \E i \in 0..(Len(s) - Len(sub)) : SubSeq(s, i + 1, i + Len(sub)) = sub

\* String.prototype.endsWith
EndsWith(s, suffix) ==
    /\ Len(s) >= Len(suffix)
    /\ SubSeq(s, Len(s) - Len(suffix) + 1, Len(s)) = suffix

UpperAlphabet == "ABCDEFGHIJKLMNOPQRSTUVWXYZ"
LowerAlphabet == "abcdefghijklmnopqrstuvwxyz"

LowerChar(c) ==
    LET i == IndexOfChar(UpperAlphabet, c)
    IN  IF i > 0 THEN Char(LowerAlphabet, i) ELSE c

\* String.prototype.toLowerCase
RECURSIVE ToLowerCase(_)
ToLowerCase(s) ==
    IF Len(s) = 0 THEN s ELSE LowerChar(Char(s, 1)) \o ToLowerCase(Drop(s, 1))

IsQuote(c) == c \in {"\"", "'"}

\* cell.replace(/^["']|["']$/g, '')
StripQuotes(s) ==
    LET a == IF Len(s) > 0 /\ IsQuote(Char(s, 1)) THEN Drop(s, 1) ELSE s
    IN  IF Len(a) > 0 /\ IsQuote(Char(a, Len(a))) THEN SubSeq(a, 1, Len(a) - 1) ELSE a

-----------------------------------------------------------------------------
(* validateEmail: /^[^\s@]+@[^\s@]+\.[^\s@]+$/ run as an automaton.  State  *)
(* 0 expects the first local character, 1 is inside the local part, 2 has   *)
(* read '@', 3 is inside the middle part, 4 has read the '.', 5 is inside   *)
(* the last part and is the only accepting state.                           *)

IsAddressChar(c) == ~IsWhitespace(c) /\ c # "@"

RegexDelta(q, c) ==
    CASE q = 0 -> IF IsAddressChar(c) THEN {1} ELSE {}
      [] q = 1 -> (IF IsAddressChar(c) THEN {1} ELSE {}) \cup (IF c = "@" THEN {2} ELSE {})
      [] q = 2 -> IF IsAddressChar(c) THEN {3} ELSE {}
      [] q = 3 -> (IF IsAddressChar(c) THEN {3} ELSE {}) \cup (IF c = "." THEN {4} ELSE {})
      [] q = 4 -> IF IsAddressChar(c) THEN {5} ELSE {}
      [] q = 5 -> IF IsAddressChar(c) THEN {5} ELSE {}

RECURSIVE RegexRun(_, _)
RegexRun(S, s) ==
    IF Len(s) = 0 THEN S
    ELSE RegexRun(UNION {RegexDelta(q, Char(s, 1)) : q \in S}, Drop(s, 1))

validateEmailAtSignOnly(email) == Includes(email, "@") /\ ~Includes(email, " ")
validateEmail(email) == 5 \in RegexRun({0}, email)

-----------------------------------------------------------------------------
(* CSV parsing and header resolution (processFile, lines 76-109)            *)

\* an optional string: row[i]?.trim() is undefined when the row has no cell i
Undefined == <<>>
Some(s) == <<s>>

\* row => row.split(',').map(cell => cell.trim().replace(/^["']|["']$/g, ''))
ParseLine(line) ==
    LET cells == Split(line, ",")
    IN  [j \in 1..Len(cells) |-> StripQuotes(Trim(cells[j]))]

\* text.split('\n').map(...)
parseCsv(text) ==
    LET lines == Split(text, "\n")
    IN  [i \in 1..Len(lines) |-> ParseLine(lines[i])]

\* rows of processFile: parsed only when the name ends in .csv, [] otherwise
RowsOf(f) == IF EndsWith(f.name, ".csv") THEN parseCsv(f.text) ELSE <<>>

\* rows[0]?.map(h => h.toLowerCase()) || []
HeadersNoLowerCase(rows) == IF Len(rows) > 0 THEN rows[1] ELSE <<>>
HeadersOf(rows) ==
    IF Len(rows) > 0 THEN [j \in 1..Len(rows[1]) |-> ToLowerCase(rows[1][j])] ELSE <<>>

\* row.some(cell => cell.trim())
SomeCell(row) == \E j \in 1..Len(row) : Trim(row[j]) # ""

\* rows.slice(1).filter(row => row.some(cell => cell.trim()))
DataRowsOfUnfiltered(rows) == SubSeq(rows, 2, Len(rows))
DataRowsOf(rows) == SelectSeq(SubSeq(rows, 2, Len(rows)), SomeCell)

EmailKeywords == {"email", "e-mail", "mail"}
FirstNameKeywords == {"first", "fname", "given"}
LastNameKeywords == {"last", "lname", "surname", "family"}
CompanyKeywords == {"company", "organization", "business"}
TitleKeywords == {"title", "position", "job"}

\* h => h.includes(k1) || h.includes(k2) || ...
MatchesAny(h, keywords) == \E k \in keywords : Includes(h, k)

\* Array.prototype.findIndex, scanning from `from` (zero-based result, -1 when none)
RECURSIVE FindFrom(_, _, _)
FindFrom(headers, keywords, from) ==
    IF from > Len(headers) THEN -1
    ELSE IF MatchesAny(headers[from], keywords) THEN from - 1
    ELSE FindFrom(headers, keywords, from + 1)

findIndexLast(headers, keywords) ==
    IF \E j \in 1..Len(headers) : MatchesAny(headers[j], keywords)
    THEN (CHOOSE j \in 1..Len(headers) :
            /\ MatchesAny(headers[j], keywords)
            /\ \A k \in (j + 1)..Len(headers) : ~MatchesAny(headers[k], keywords)) - 1
    ELSE -1
findIndex(headers, keywords) == FindFrom(headers, keywords, 1)

\* emailIndex, firstNameIndex, lastNameIndex, companyIndex, titleIndex
ResolveColumns(headers) ==
    [email      |-> findIndex(headers, EmailKeywords),
     first_name |-> findIndex(headers, FirstNameKeywords),
     last_name  |-> findIndex(headers, LastNameKeywords),
     company    |-> findIndex(headers, CompanyKeywords),
     title      |-> findIndex(headers, TitleKeywords)]

NoColumns ==
    [email |-> -1, first_name |-> -1, last_name |-> -1, company |-> -1, title |-> -1]

-----------------------------------------------------------------------------
(* The body of dataRows.forEach (processFile, lines 125-146)                *)

\* row[i]?.trim()
CellAt(row, i) == IF i >= 0 /\ i < Len(row) THEN Some(Trim(row[i + 1])) ELSE Undefined

\* i >= 0 ? row[i]?.trim() : undefined
FieldAt(row, i) == IF i >= 0 THEN CellAt(row, i) ELSE Undefined

\* !email
IsFalsyUndefinedOnly(opt) == opt = Undefined
IsFalsy(opt) == opt = Undefined \/ opt = Some("")

MakeContact(email, row, cols) ==
    [email      |-> email,
     first_name |-> FieldAt(row, cols.first_name),
     last_name  |-> FieldAt(row, cols.last_name),
     company    |-> FieldAt(row, cols.company),
     title      |-> FieldAt(row, cols.title)]

\* Array.prototype.push
Unshift(list, c) == <<c>> \o list
Push(list, c) == Append(list, c)

\* a number held as an irreducible fraction
RECURSIVE Gcd(_, _)
Gcd(a, b) == IF b = 0 THEN a ELSE Gcd(b, a % b)

Ratio(n, d) == LET g == Gcd(n, d) IN [num |-> n \div g, den |-> d \div g]

\* ((index + 1) / dataRows.length) * 100
RowProgressFromIndex(index, n) == Ratio(index * 100, n)
RowProgress(index, n) == Ratio((index + 1) * 100, n)

-----------------------------------------------------------------------------
(* The files a user can pick                                               *)

\* the header of the files whose data rows vary: first_name resolves to cell 0, email
\* to cell 1 (cell 2 is mail-like too), last_name to cell 2, company and title to none
MainHeader == "Given,Mail,Family E-Mail"

\* a quoted valid address on a short row; an address without a dot; an address with
\* white space inside; a row without an email cell; a row with a blank email cell; a
\* row whose cells are all blank once parsed
DataLines ==
    {"Al, 'a@b.co'", "Bo,a@b,Lee", ",x y@c.d, Roe", "Cy", "Di, ,Poe", " ,\"\""}

\* further headers, each explored with at most one data row
OtherHeaders ==
    {"name,phone", "", "EMAIL", "Job Title,COMPANY,fname,LName,e-mail",
     "surname,organization,position,email", "Business Mail,first,last"}

OtherDataParts == {<<>>, <<"Al, 'a@b.co'">>, <<"Bo,a@b,Lee">>}

RECURSIVE JoinLines(_)
JoinLines(lines) ==
    IF Len(lines) = 0 THEN ""
    ELSE IF Len(lines) = 1 THEN lines[1]
    ELSE lines[1] \o "\n" \o JoinLines(Tail(lines))

DataParts == UNION {[1..k -> DataLines] : k \in 0..MaxDataRows}

CsvTexts ==
    {JoinLines(<<MainHeader>> \o d) : d \in DataParts}
        \cup {JoinLines(<<h>> \o d) : h \in OtherHeaders, d \in OtherDataParts}

\* the cells that probe cell.trim().replace(...): letters, both quote characters and
\* white space, in every arrangement up to MaxCellLen
CellAlphabet == {"a", "\"", "'", " "}

RECURSIVE CellsOfLen(_)
CellsOfLen(n) ==
    IF n = 0 THEN {""} ELSE {c \o s : c \in CellAlphabet, s \in CellsOfLen(n - 1)}

CellPool == UNION {CellsOfLen(n) : n \in 0..MaxCellLen}

\* the text before the probed cell: a header of two columns, then the address cell
CellPrefix == "email,first_name\na@b.co,"

\* a File: its name, its content, and whether file.text() resolves
NoFile == [name |-> "", text |-> "", readable |-> FALSE]

Files ==
    {[name |-> "contacts.csv", text |-> t, readable |-> TRUE] : t \in CsvTexts}
        \cup {[name |-> "contacts.xlsx", text |-> "PK", readable |-> TRUE],
              [name |-> "notes.txt", text |-> "email\na@b.co", readable |-> TRUE],
              [name |-> "gone.csv", text |-> "", readable |-> FALSE]}

\* one file for each probed cell, and one that cannot be read
CellFiles ==
    {[name |-> "cells.csv", text |-> CellPrefix \o c, readable |-> TRUE] : c \in CellPool}
        \cup {[name |-> "gone.csv", text |-> "", readable |-> FALSE]}

\* the files picked in the runs that go on to submit: a list with a header of three
\* columns and well-formed, repeated and malformed addresses, and three files whose
\* ingestion aborts
UploadHeader == "email,first_name,company"
UploadLines == {<<"a@b.co,Al,Acme">>, <<"c@d.io,Cy,">>, <<"a@b.co,Al,Acme", "c@d.io,Cy,">>,
                <<"a@b.co,Al,Acme", "a@b.co,Al,Acme">>, <<"a@b.co,Al,Acme", "bad,Bo,Bix">>,
                <<"bad,Bo,Bix">>}

UploadFiles ==
    {[name |-> "list.csv", text |-> JoinLines(<<UploadHeader>> \o d), readable |-> TRUE] :
        d \in UploadLines}
        \cup {[name |-> "contacts.xlsx", text |-> "PK", readable |-> TRUE],
              [name |-> "contacts.csv", text |-> "name,phone", readable |-> TRUE],
              [name |-> "gone.csv", text |-> "", readable |-> FALSE]}

-----------------------------------------------------------------------------
(* Notifications (the arguments of toast())                                 *)

NoToast == [title |-> "", description |-> ""]

XlsxToast ==
    [title |-> "XLSX Support",
     description |-> "XLSX support will be added in the next update. Please use CSV for now."]

NoEmailColumnToast ==
    [title |-> "Error",
     description |-> "No email column found. Please ensure your file has an email column."]

ProcessFailedToast ==
    [title |-> "Error",
     description |-> "Failed to process file. Please check the format and try again."]

InvalidTypeToast ==
    [title |-> "Invalid file type", description |-> "Please upload a CSV or XLSX file"]

\* `Found ${valid.length} valid and ${invalid.length} invalid email addresses`
ProcessedToast(nValid, nInvalid) ==
    [title |-> "File processed", description |-> "Found", valid |-> nValid, invalid |-> nInvalid]

FetchFailedToast == [title |-> "Error", description |-> "Failed to fetch campaigns"]

UploadGuardToast ==
    [title |-> "Error",
     description |-> "Please select a campaign and ensure you have valid contacts"]

\* `Successfully uploaded ${validContacts.length} contacts`
UploadedToast(n) == [title |-> "Success", description |-> "Successfully uploaded", count |-> n]

UploadFailedToast ==
    [title |-> "Error",
     description |-> "Failed to upload contacts. Some emails might already exist in the campaign."]

-----------------------------------------------------------------------------
(* State of the view and of a processFile activation                        *)

Zero == Ratio(0, 1)

NoFrame ==
    [file |-> NoFile, dataRows |-> <<>>, cols |-> NoColumns, index |-> 0,
     processedContacts |-> <<>>, valid |-> <<>>, invalid |-> <<>>, skipped |-> 0]

\* no uploadContacts activation
NoUpload == [campaign |-> "", rows |-> <<>>, inserts |-> 0, updates |-> 0]

\* the tables of the migration: campaigns (in order of created_at) and contacts
InitialCampaigns ==
    << [id |-> "c1", name |-> "Spring", status |-> "draft", total_contacts |-> 0],
       [id |-> "c2", name |-> "Launch", status |-> "active", total_contacts |-> 0] >>

\* minted: how many campaign ids the store has generated
InitialStore == [campaigns |-> InitialCampaigns, contacts |-> {}, minted |-> 2]

EmptyForm == [name |-> "", description |-> ""]

\* the lazy initializer of the useState call at its call site, and the line whose
\* evaluation initialises the const binding the initializer reads
MountInitializerAt == 40
FetchCampaignsDeclaredAt == 44

\* useState runs a function argument during the first render, where it is called: a
\* const binding read above its declaration throws, and the render of the view with it
MountThrows == MountInitializerAt < FetchCampaignsDeclaredAt

\* the handlers of the upload view start from here: every useState at its initial
\* value and the request of fetchCampaigns under way (the first render is under
\* onTabChange, below)
UploadAtStart ==
    /\ fileInput = NoFile
    /\ file = NoFile
    /\ contacts = <<>>
    /\ validContacts = <<>>
    /\ invalidContacts = <<>>
    /\ isProcessing = FALSE
    /\ uploadProgress = Zero
    /\ toast = NoToast
    /\ pc = "idle"
    /\ frame = NoFrame
    /\ selectedCampaign = ""
    /\ campaigns = <<>>
    /\ fetchPending = TRUE
    /\ uploadPc = "idle"
    /\ uploadFrame = NoUpload

\* no upload view is rendered: none of its state is held and no request of it is out
UploadUnmounted ==
    /\ fileInput = NoFile
    /\ file = NoFile
    /\ contacts = <<>>
    /\ validContacts = <<>>
    /\ invalidContacts = <<>>
    /\ isProcessing = FALSE
    /\ uploadProgress = Zero
    /\ toast = NoToast
    /\ pc = "idle"
    /\ frame = NoFrame
    /\ selectedCampaign = ""
    /\ campaigns = <<>>
    /\ fetchPending = FALSE
    /\ uploadPc = "idle"
    /\ uploadFrame = NoUpload

\* the page as first loaded: every useState of Index, AdminAuth and CampaignManager at
\* its initial value, nothing persisted, no handler under way
ShellAtStart ==
    /\ isAuthenticated = FALSE
    /\ adminFlag = Undefined
    /\ activeTab = "dashboard"
    /\ password = ""
    /\ managerCampaigns = <<>>
    /\ managerLoading = TRUE
    /\ isCreateDialogOpen = FALSE
    /\ newCampaign = EmptyForm
    /\ requests = <<>>
    /\ issued = 0

ViewAtStart == UploadUnmounted /\ ShellAtStart

Init == UploadAtStart /\ ShellAtStart /\ store = InitialStore

\* !file.name.endsWith('.csv') && !file.name.endsWith('.xlsx'), negated
IsSupportedNameAny(name) == TRUE
IsSupportedName(name) == EndsWith(name, ".csv") \/ EndsWith(name, ".xlsx")

\* the else-if branch of processFile that rejects spreadsheets
IsXlsxBranchNever(name) == FALSE
IsXlsxBranch(name) == ~EndsWith(name, ".csv") /\ EndsWith(name, ".xlsx")

\* emailIndex === -1
MissingEmailColumnNever(cols) == FALSE
MissingEmailColumn(cols) == cols.email = -1

\* rows, headers, dataRows and the five indexes of processFile (lines 74-109), as
\* computed from the text file.text() resolves to
ParseFile(f) ==
    LET rows == RowsOf(f)
        headers == HeadersOf(rows)
    IN  [dataRows |-> DataRowsOf(rows), cols |-> ResolveColumns(headers)]

\* ParseFile tabulated over the files a user can pick
ParsedFiles == [f \in Files \cup UploadFiles \cup CellFiles |-> ParseFile(f)]

\* handleFileUpload: the change event of the file input (disabled while isProcessing);
\* runs processFile up to its await of file.text()
handleFileUpload(f) ==
    /\ UNCHANGED outsideIngestion
    /\ pc = "idle"
    /\ ~isProcessing
    /\ f # fileInput
    /\ fileInput' = f
    /\ IF f = NoFile
       THEN UNCHANGED <<file, contacts, validContacts, invalidContacts, isProcessing,
                        uploadProgress, toast, pc, frame>>
       ELSE IF ~IsSupportedName(f.name)
       THEN /\ toast' = InvalidTypeToast
            /\ UNCHANGED <<file, contacts, validContacts, invalidContacts, isProcessing,
                           uploadProgress, pc, frame>>
       ELSE /\ file' = f
            /\ isProcessing' = TRUE
            /\ uploadProgress' = Zero
            /\ pc' = "reading"
            /\ frame' = [NoFrame EXCEPT !.file = f]
            /\ UNCHANGED <<contacts, validContacts, invalidContacts, toast>>

\* await file.text() resolves
TextResolved ==
    /\ UNCHANGED outsideIngestion
    /\ pc = "reading"
    /\ frame.file.readable
    /\ pc' = "parse"
    /\ UNCHANGED <<fileInput, file, contacts, validContacts, invalidContacts, isProcessing,
                   uploadProgress, toast, frame>>

\* await file.text() rejects: the catch block, then finally
TextRejected ==
    /\ UNCHANGED outsideIngestion
    /\ pc = "reading"
    /\ ~frame.file.readable
    /\ toast' = ProcessFailedToast
    /\ isProcessing' = FALSE
    /\ uploadProgress' = Zero
    /\ pc' = "idle"
    /\ frame' = NoFrame
    /\ UNCHANGED <<fileInput, file, contacts, validContacts, invalidContacts>>

\* processFile from the parse to the start of dataRows.forEach, with both early returns
ParseText ==
    /\ UNCHANGED outsideIngestion
    /\ pc = "parse"
    /\ LET name == frame.file.name
           parsed == ParsedFiles[frame.file]
           dataRows == parsed.dataRows
           cols == parsed.cols
       IN  IF IsXlsxBranch(name)
           THEN /\ toast' = XlsxToast
                /\ isProcessing' = FALSE
                /\ uploadProgress' = Zero
                /\ pc' = "idle"
                /\ frame' = NoFrame
           ELSE IF MissingEmailColumn(cols)
           THEN /\ toast' = NoEmailColumnToast
                /\ isProcessing' = FALSE
                /\ uploadProgress' = Zero
                /\ pc' = "idle"
                /\ frame' = NoFrame
           ELSE /\ pc' = "rows"
                /\ frame' = [frame EXCEPT !.dataRows = dataRows, !.cols = cols]
                /\ UNCHANGED <<toast, isProcessing, uploadProgress>>
    /\ UNCHANGED <<fileInput, file, contacts, validContacts, invalidContacts>>

\* one call of the forEach callback
RowStep(fr, row) ==
    LET email == CellAt(row, fr.cols.email)
    IN  IF IsFalsy(email)
        THEN [fr EXCEPT !.index = @ + 1, !.skipped = @ + 1]
        ELSE LET contact == MakeContact(email[1], row, fr.cols)
             IN  IF validateEmail(email[1])
                 THEN [fr EXCEPT !.index = @ + 1,
                                 !.processedContacts = Push(@, contact),
                                 !.valid = Push(@, contact)]
                 ELSE [fr EXCEPT !.index = @ + 1,
                                 !.processedContacts = Push(@, contact),
                                 !.invalid = Push(@, contact)]

ProcessRow ==
    /\ UNCHANGED outsideIngestion
    /\ pc = "rows"
    /\ frame.index < Len(frame.dataRows)
    /\ uploadProgress' = RowProgress(frame.index, Len(frame.dataRows))
    /\ frame' = RowStep(frame, frame.dataRows[frame.index + 1])
    /\ UNCHANGED <<fileInput, file, contacts, validContacts, invalidContacts, isProcessing,
                   toast, pc>>

\* after the loop: the three setters, the toast, then finally
FinishProcessingSaving ==
    /\ UNCHANGED <<submissionVars, shellVars, managerVars>>
    /\ store' = [store EXCEPT !.contacts = @ \cup {frame.valid[i] : i \in DOMAIN frame.valid}]
    /\ pc = "rows"
    /\ frame.index = Len(frame.dataRows)
    /\ contacts' = frame.processedContacts
    /\ validContacts' = frame.valid
    /\ invalidContacts' = frame.invalid
    /\ toast' = ProcessedToast(Len(frame.valid), Len(frame.invalid))
    /\ isProcessing' = FALSE
    /\ uploadProgress' = Zero
    /\ pc' = "idle"
    /\ frame' = NoFrame
    /\ UNCHANGED <<fileInput, file>>
FinishProcessing ==
    /\ UNCHANGED outsideIngestion
    /\ pc = "rows"
    /\ frame.index = Len(frame.dataRows)
    /\ contacts' = frame.processedContacts
    /\ validContacts' = frame.valid
    /\ invalidContacts' = frame.invalid
    /\ toast' = ProcessedToast(Len(frame.valid), Len(frame.invalid))
    /\ isProcessing' = FALSE
    /\ uploadProgress' = Zero
    /\ pc' = "idle"
    /\ frame' = NoFrame
    /\ UNCHANGED <<fileInput, file>>

\* the steps of the view when the user picks among the files of `pool`
NextOn(pool) ==
    \/ \E f \in pool \cup {NoFile} : handleFileUpload(f)
    \/ TextResolved
    \/ TextRejected
    \/ ParseText
    \/ ProcessRow
    \/ FinishProcessing

Next == NextOn(Files)

Spec == Init /\ [][Next]_vars

\* the view while the user picks among the files that probe one cell
NextCells == NextOn(CellFiles)

SpecCells == Init /\ [][NextCells]_vars

-----------------------------------------------------------------------------
(* The Data Store as the migration defines it                               *)

Range(seq) == {seq[i] : i \in DOMAIN seq}

CampaignIds(st) == {st.campaigns[i].id : i \in DOMAIN st.campaigns}

\* UNIQUE(campaign_id, email)
Key(row) == <<row.campaign_id, row.email>>
ViolatesUniqueNever(rows, table) == FALSE
ViolatesUniqueStoredOnly(rows, table) ==
    \E i \in DOMAIN rows : Key(rows[i]) \in {Key(r) : r \in table}
ViolatesUnique(rows, table) ==
    \/ \E i \in DOMAIN rows : Key(rows[i]) \in {Key(r) : r \in table}
    \/ \E i, j \in DOMAIN rows : i < j /\ Key(rows[i]) = Key(rows[j])

\* campaign_id REFERENCES campaigns(id)
ViolatesForeignKey(rows, st) == \E i \in DOMAIN rows : rows[i].campaign_id \notin CampaignIds(st)

\* update({ total_contacts: n }).eq("id", id)
UpdateTotalAdding(st, id, n) ==
    [st EXCEPT !.campaigns =
        [k \in DOMAIN @ |-> IF @[k].id = id
                            THEN [@[k] EXCEPT !.total_contacts = @ + n] ELSE @[k]]]
UpdateTotal(st, id, n) ==
    [st EXCEPT !.campaigns =
        [k \in DOMAIN @ |-> IF @[k].id = id
                            THEN [@[k] EXCEPT !.total_contacts = n] ELSE @[k]]]

-----------------------------------------------------------------------------
(* ContactUpload: the campaign selector and uploadContacts                  *)

\* NULL in a column of the store
\* null: neither undefined (a property JSON leaves out) nor a string
Null == <<"null", "null">>

\* value ?? null
OrNullKeepingBlank(opt) == IF opt = Undefined THEN Null ELSE opt

\* value || null
OrNull(opt) == IF opt = Undefined \/ opt = Some("") THEN Null ELSE opt

\* validContacts.map(contact => ({ campaign_id: selectedCampaign, ... }))
ContactsToInsert(campaign, valid) ==
    [i \in DOMAIN valid |->
        [campaign_id |-> campaign,
         email       |-> valid[i].email,
         first_name  |-> OrNull(valid[i].first_name),
         last_name   |-> OrNull(valid[i].last_name),
         company     |-> OrNull(valid[i].company),
         title       |-> OrNull(valid[i].title)]]

RECURSIVE Reverse(_)
Reverse(seq) == IF seq = <<>> THEN <<>> ELSE Append(Reverse(Tail(seq)), Head(seq))

\* select("id, name, status").order("created_at", { ascending: false })
SelectorRows(st) ==
    LET rows == Reverse(st.campaigns)
    IN  [i \in DOMAIN rows |-> [id |-> rows[i].id, name |-> rows[i].name,
                                status |-> rows[i].status]]

\* fetchCampaigns of ContactUpload, issued when the view mounts: the request resolves
CampaignsFetched ==
    /\ fetchPending
    /\ fetchPending' = FALSE
    /\ campaigns' = SelectorRows(store)
    /\ UNCHANGED <<ingestionVars, selectedCampaign, uploadPc, uploadFrame, store,
                   shellVars, managerVars>>

\* fetchCampaigns: the request fails
CampaignsFetchFailed ==
    /\ fetchPending
    /\ fetchPending' = FALSE
    /\ toast' = FetchFailedToast
    /\ UNCHANGED <<fileInput, file, contacts, validContacts, invalidContacts, isProcessing,
                   uploadProgress, pc, frame>>
    /\ UNCHANGED <<selectedCampaign, campaigns, uploadPc, uploadFrame, store,
                   shellVars, managerVars>>

\* <Select value={selectedCampaign} onValueChange={setSelectedCampaign}> over the
\* fetched campaigns; the selector stays enabled while isProcessing
setSelectedCampaign(c) ==
    /\ c \in {campaigns[i].id : i \in DOMAIN campaigns}
    /\ c # selectedCampaign
    /\ selectedCampaign' = c
    /\ UNCHANGED <<ingestionVars, campaigns, fetchPending, uploadPc, uploadFrame, store,
                   shellVars, managerVars>>

\* !selectedCampaign || validContacts.length === 0
UploadGuardCampaignOnly(campaign, valid) == campaign = ""
UploadGuard(campaign, valid) == campaign = "" \/ Len(valid) = 0

\* the function uploadContacts up to its first await, whoever calls it
uploadContactsBody ==
    /\ IF UploadGuard(selectedCampaign, validContacts)
       THEN /\ toast' = UploadGuardToast
            /\ UNCHANGED <<isProcessing, uploadPc, uploadFrame>>
       ELSE /\ isProcessing' = TRUE
            /\ uploadPc' = "inserting"
            /\ uploadFrame' = [campaign |-> selectedCampaign,
                               rows |-> ContactsToInsert(selectedCampaign, validContacts),
                               inserts |-> 1, updates |-> 0]
            /\ UNCHANGED toast
    /\ UNCHANGED <<fileInput, file, contacts, validContacts, invalidContacts,
                   uploadProgress, pc, frame>>
    /\ UNCHANGED <<selectedCampaign, campaigns, fetchPending, store, shellVars, managerVars>>

\* an Upload button that stays enabled while isProcessing
uploadContactsWhileBusy ==
    /\ Len(validContacts) > 0
    /\ selectedCampaign # ""
    /\ uploadContactsBody

\* the Upload button (rendered when validContacts.length > 0, disabled while
\* isProcessing or without a selected campaign): uploadContacts up to its first await
uploadContacts ==
    /\ Len(validContacts) > 0
    /\ ~isProcessing
    /\ selectedCampaign # ""
    /\ uploadContactsBody


\* finally { setIsProcessing(false) }, which ends the activation
UploadFinallyKeepingFlag ==
    /\ UNCHANGED isProcessing
    /\ uploadPc' = "idle"
    /\ uploadFrame' = NoUpload
UploadFinally ==
    /\ isProcessing' = FALSE
    /\ uploadPc' = "idle"
    /\ uploadFrame' = NoUpload

\* the catch block of uploadContacts, then finally
UploadCatchClearing ==
    /\ toast' = UploadFailedToast
    /\ UploadFinally
    /\ file' = NoFile
    /\ contacts' = <<>>
    /\ validContacts' = <<>>
    /\ invalidContacts' = <<>>
    /\ selectedCampaign' = ""
    /\ UNCHANGED fileInput
UploadCatch ==
    /\ toast' = UploadFailedToast
    /\ UploadFinally
    /\ UNCHANGED <<fileInput, file, contacts, validContacts, invalidContacts,
                   selectedCampaign>>

\* an insert that overwrites the rows it repeats
InsertAcceptedUpserting(rows, st) == ~ViolatesForeignKey(rows, st)

\* the store accepts the rows of one insert statement, all or none
InsertAccepted(rows, st) ==
    /\ ~ViolatesUnique(rows, st.contacts)
    /\ ~ViolatesForeignKey(rows, st)

\* await insert(contactsToInsert) resolves without error; the update is issued
InsertSucceeded ==
    /\ uploadPc = "inserting"
    /\ InsertAccepted(uploadFrame.rows, store)
    /\ store' = [store EXCEPT !.contacts = @ \cup Range(uploadFrame.rows)]
    /\ uploadPc' = "updating"
    /\ uploadFrame' = [uploadFrame EXCEPT !.updates = @ + 1]
    /\ UNCHANGED <<ingestionVars, selectedCampaign, campaigns, fetchPending,
                   shellVars, managerVars>>

\* await insert(contactsToInsert) resolves with an error (a constraint of the table, or
\* any other refusal): throw error
InsertRejectedRetrying ==
    /\ uploadPc = "inserting"
    /\ IF uploadFrame.inserts < 2
       THEN /\ uploadFrame' = [uploadFrame EXCEPT !.inserts = @ + 1]
            /\ UNCHANGED <<fileInput, file, contacts, validContacts, invalidContacts,
                           selectedCampaign, toast, isProcessing, uploadPc>>
       ELSE UploadCatch
    /\ UNCHANGED <<uploadProgress, pc, frame, campaigns, fetchPending, store,
                   shellVars, managerVars>>
InsertRejected ==
    /\ uploadPc = "inserting"
    /\ UploadCatch
    /\ UNCHANGED <<uploadProgress, pc, frame, campaigns, fetchPending, store,
                   shellVars, managerVars>>

\* await update({ total_contacts }) resolves without error: the success toast, the
\* five resets, the file input emptied, then finally
UpdateSucceeded ==
    /\ uploadPc = "updating"
    /\ store' = UpdateTotal(store, uploadFrame.campaign, Len(uploadFrame.rows))
    /\ toast' = UploadedToast(Len(uploadFrame.rows))
    /\ file' = NoFile
    /\ contacts' = <<>>
    /\ validContacts' = <<>>
    /\ invalidContacts' = <<>>
    /\ selectedCampaign' = ""
    /\ fileInput' = NoFile
    /\ UploadFinally
    /\ UNCHANGED <<uploadProgress, pc, frame, campaigns, fetchPending,
                   shellVars, managerVars>>

\* await update({ total_contacts }) resolves with an error: throw updateError
UpdateRejectedRollingBack ==
    /\ uploadPc = "updating"
    /\ UploadCatch
    /\ store' = [store EXCEPT !.contacts = @ \ Range(uploadFrame.rows)]
    /\ UNCHANGED <<uploadProgress, pc, frame, campaigns, fetchPending,
                   shellVars, managerVars>>
UpdateRejected ==
    /\ uploadPc = "updating"
    /\ UploadCatch
    /\ UNCHANGED <<uploadProgress, pc, frame, campaigns, fetchPending, store,
                   shellVars, managerVars>>

\* the upload view with the files of `pool`, from ingestion to submission
NextUploadOn(pool) ==
    \/ NextOn(pool)
    \/ CampaignsFetched
    \/ CampaignsFetchFailed
    \/ \E c \in CampaignIds(store) : setSelectedCampaign(c)
    \/ uploadContacts
    \/ InsertSucceeded
    \/ InsertRejected
    \/ UpdateSucceeded
    \/ UpdateRejected

NextUpload == NextUploadOn(UploadFiles)

SpecUpload == Init /\ [][NextUpload]_vars

\* uploadContacts called while the view is at rest and does not offer its button (the
\* button is rendered only with valid contacts and disabled without a campaign)
uploadContactsCalled ==
    /\ pc = "idle"
    /\ uploadPc = "idle"
    /\ ~isProcessing
    /\ ~(Len(validContacts) > 0 /\ selectedCampaign # "")
    /\ uploadContactsBody

\* the upload view with its handler also called where the button does not offer it
NextCall == NextUpload \/ uploadContactsCalled

SpecCall == Init /\ [][NextCall]_vars

-----------------------------------------------------------------------------
(* The view shell (Index, Sidebar, AdminAuth) and the mounting of           *)
(* CampaignManager under its tab.  The upload view keeps its initial state  *)
(* in the runs of this part; its own steps are those of Spec and SpecUpload. *)

\* the ids of menuItems
Tabs == {"dashboard", "campaigns", "contacts", "templates", "analytics", "upload", "settings"}

\* what a user may type into the password field
PasswordPool == {"", " ", "guess", "hunter2"}

AuthOkToast ==
    [title |-> "Authentication successful",
     description |-> "Welcome to the Cold Email Campaign Manager"]

AuthFailedToast ==
    [title |-> "Authentication failed", description |-> "Please enter a valid password"]

LoggedOutToast ==
    [title |-> "Logged out", description |-> "You have been logged out successfully"]

\* what Index renders: the password form, or the content of the active tab
renderContent ==
    IF ~isAuthenticated THEN "AdminAuth"
    ELSE CASE activeTab = "dashboard" -> "Dashboard"
           [] activeTab = "campaigns" -> "CampaignManager"
           [] activeTab = "upload"    -> "ContactUpload"
           [] activeTab \in {"contacts", "templates", "analytics", "settings"} -> "coming soon"
           [] OTHER -> "Dashboard"

\* a CampaignManager handler awaiting the store: its arguments, the campaigns list its
\* closure captured, whether its component instance is unmounted, and the answer
Request(kind, id, status, name, captured) ==
    [kind |-> kind, id |-> id, status |-> status, name |-> name, captured |-> captured,
     orphan |-> FALSE, phase |-> "sent", data |-> <<>>]

\* useEffect(() => { fetchCampaigns(); }, []) of CampaignManager
FetchRequest == Request("fetch", "", "", "", <<>>)

\* the instances whose component is gone: their setters have no effect any more
Orphaned(reqs) == [i \in DOMAIN reqs |-> [reqs[i] EXCEPT !.orphan = TRUE]]

\* the render of ContactUpload threw: nothing of the page is left to click on
RenderFailed == isAuthenticated /\ activeTab = "upload" /\ MountThrows

\* CampaignManager is rendered: renderContent under an authenticated Index
ManagerMounted == isAuthenticated /\ activeTab = "campaigns"

\* a fresh CampaignManager instance mounts (its fetch is issued), or none is mounted
ManagerState(mounted, reqs) ==
    /\ managerCampaigns' = <<>>
    /\ managerLoading' = TRUE
    /\ isCreateDialogOpen' = FALSE
    /\ newCampaign' = EmptyForm
    /\ requests' = IF mounted THEN Append(Orphaned(reqs), FetchRequest) ELSE Orphaned(reqs)
    /\ issued' = IF mounted THEN issued + 1 ELSE issued

\* onChange of the password field of AdminAuth
setPassword(p) ==
    /\ ~isAuthenticated
    /\ p # password
    /\ password' = p
    /\ UNCHANGED <<ingestionVars, submissionVars, store, isAuthenticated, adminFlag,
                   activeTab, managerVars>>

\* AdminAuth.handleSubmit; the field is `required`, so an empty one is not submitted.
\* On success Index renders the shell and the AdminAuth instance is gone.
handleSubmit ==
    /\ ~isAuthenticated
    /\ password # ""
    /\ IF Trim(password) # ""
       THEN /\ adminFlag' = Some("true")
            /\ toast' = AuthOkToast
            /\ isAuthenticated' = TRUE
            /\ password' = ""
       ELSE /\ toast' = AuthFailedToast
            /\ UNCHANGED <<adminFlag, isAuthenticated, password>>
    /\ UNCHANGED <<fileInput, file, contacts, validContacts, invalidContacts, isProcessing,
                   uploadProgress, pc, frame>>
    /\ UNCHANGED <<submissionVars, store, activeTab, managerVars>>

\* Sidebar: onClick={() => onTabChange(item.id)}; leaving the campaigns tab unmounts
\* CampaignManager, entering it mounts a fresh instance; entering the upload tab
\* renders ContactUpload, whose request goes out only if that render gets through
onTabChange(tab) ==
    /\ isAuthenticated
    /\ ~RenderFailed
    /\ tab # activeTab
    /\ fetchPending' = (tab = "upload" /\ ~MountThrows)
    /\ activeTab' = tab
    /\ IF tab = "campaigns"
       THEN issued < MaxRequests /\ ManagerState(TRUE, requests)
       ELSE IF activeTab = "campaigns"
       THEN ManagerState(FALSE, requests)
       ELSE UNCHANGED managerVars
    /\ UNCHANGED <<ingestionVars, selectedCampaign, campaigns, uploadPc, uploadFrame>>
    /\ UNCHANGED <<store, isAuthenticated, adminFlag, password>>

\* a logout that leaves the persisted flag in place
handleLogoutKeepingFlag ==
    /\ isAuthenticated
    /\ ~RenderFailed
    /\ isAuthenticated' = FALSE
    /\ activeTab' = "dashboard"
    /\ toast' = LoggedOutToast
    /\ IF activeTab = "campaigns"
       THEN ManagerState(FALSE, requests)
       ELSE UNCHANGED managerVars
    /\ UNCHANGED <<fileInput, file, contacts, validContacts, invalidContacts, isProcessing,
                   uploadProgress, pc, frame>>
    /\ UNCHANGED <<submissionVars, store, password, adminFlag>>

\* Index.handleLogout, reached from the Sidebar's logout button
handleLogout ==
    /\ isAuthenticated
    /\ ~RenderFailed
    /\ adminFlag' = Undefined
    /\ isAuthenticated' = FALSE
    /\ activeTab' = "dashboard"
    /\ toast' = LoggedOutToast
    /\ IF activeTab = "campaigns"
       THEN ManagerState(FALSE, requests)
       ELSE UNCHANGED managerVars
    /\ UNCHANGED <<fileInput, file, contacts, validContacts, invalidContacts, isProcessing,
                   uploadProgress, pc, frame>>
    /\ UNCHANGED <<submissionVars, store, password>>

\* the page is loaded again: every useState starts over, the handlers of the page left
\* are gone with it, and the mount effect of Index reads the persisted flag
Reload ==
    /\ isAuthenticated' = (adminFlag = Some("true"))
    /\ activeTab' = "dashboard"
    /\ password' = ""
    /\ toast' = NoToast
    /\ managerCampaigns' = <<>>
    /\ managerLoading' = TRUE
    /\ isCreateDialogOpen' = FALSE
    /\ newCampaign' = EmptyForm
    /\ requests' = <<>>
    /\ UNCHANGED issued
    /\ UNCHANGED <<fileInput, file, contacts, validContacts, invalidContacts, isProcessing,
                   uploadProgress, pc, frame>>
    /\ UNCHANGED <<submissionVars, store, adminFlag>>

-----------------------------------------------------------------------------
(* CampaignManager: its handlers, the store serving them, their answers     *)

NamePool == {"", " ", "Q3"}

NameRequiredToast == [title |-> "Error", description |-> "Campaign name is required"]
CreatedToast == [title |-> "Success", description |-> "Campaign created successfully"]
CreateFailedToast == [title |-> "Error", description |-> "Failed to create campaign"]
\* `Campaign ${newStatus}`
StatusToast(newStatus) == [title |-> "Success", description |-> "Campaign", status |-> newStatus]
StatusFailedToast == [title |-> "Error", description |-> "Failed to update campaign status"]
DeletedToast == [title |-> "Success", description |-> "Campaign deleted successfully"]
DeleteFailedToast == [title |-> "Error", description |-> "Failed to delete campaign"]

\* CHECK (status IN ('draft', 'active', 'paused', 'completed'))
StatusCheck(status) == status \in {"draft", "active", "paused", "completed"}

\* the row createCampaign inserts
NewCampaignRowActive(name) == [name |-> name, status |-> "active"]
NewCampaignRow(name) == [name |-> name, status |-> "draft"]

\* a button that takes a paused campaign back to draft
ButtonStatusCycling(status) ==
    IF status = "active" THEN "paused" ELSE IF status = "paused" THEN "draft" ELSE "active"

\* the status the button of a campaign's row asks for
ButtonStatus(status) ==
    IF status = "active" THEN "paused" ELSE IF status = "paused" THEN "active" ELSE "active"

\* the controls of the page are rendered (not the loading skeleton)
ManagerReady == ManagerMounted /\ ~managerLoading

\* <Dialog open={isCreateDialogOpen} onOpenChange={setIsCreateDialogOpen}>, Cancel
setIsCreateDialogOpen(b) ==
    /\ ManagerReady
    /\ b # isCreateDialogOpen
    /\ isCreateDialogOpen' = b
    /\ UNCHANGED <<ingestionVars, submissionVars, store, shellVars, managerCampaigns,
                   managerLoading, newCampaign, requests, issued>>

\* onChange of the campaign-name field
setNewCampaign(name) ==
    /\ ManagerReady
    /\ isCreateDialogOpen
    /\ name # newCampaign.name
    /\ newCampaign' = [newCampaign EXCEPT !.name = name]
    /\ UNCHANGED <<ingestionVars, submissionVars, store, shellVars, managerCampaigns,
                   managerLoading, isCreateDialogOpen, requests, issued>>

\* createCampaign up to its await
createCampaign ==
    /\ ManagerReady
    /\ isCreateDialogOpen
    /\ IF Trim(newCampaign.name) = ""
       THEN /\ toast' = NameRequiredToast
            /\ UNCHANGED <<requests, issued>>
       ELSE /\ issued < MaxRequests
            /\ issued' = issued + 1
            /\ store.minted + Cardinality({i \in DOMAIN requests :
                    requests[i].kind = "create" /\ requests[i].phase = "sent"}) < MaxCampaigns
            /\ LET row == NewCampaignRow(newCampaign.name)
               IN  requests' = Append(requests,
                        Request("create", "", row.status, row.name, managerCampaigns))
            /\ UNCHANGED toast
    /\ UNCHANGED <<fileInput, file, contacts, validContacts, invalidContacts, isProcessing,
                   uploadProgress, pc, frame>>
    /\ UNCHANGED <<submissionVars, store, shellVars, managerCampaigns, managerLoading,
                   isCreateDialogOpen, newCampaign>>

\* updateCampaignStatus(campaign.id, ...) from the button of a listed campaign, up to
\* its await
updateCampaignStatus(i) ==
    /\ ManagerReady
    /\ ~isCreateDialogOpen
    /\ i \in DOMAIN managerCampaigns
    /\ issued < MaxRequests
    /\ issued' = issued + 1
    /\ requests' = Append(requests,
            Request("update", managerCampaigns[i].id, ButtonStatus(managerCampaigns[i].status),
                    "", managerCampaigns))
    /\ UNCHANGED <<ingestionVars, submissionVars, store, shellVars, managerCampaigns,
                   managerLoading, isCreateDialogOpen, newCampaign>>

\* deleteCampaign(campaign.id) with the confirm() accepted, up to its await
deleteCampaign(i) ==
    /\ ManagerReady
    /\ ~isCreateDialogOpen
    /\ i \in DOMAIN managerCampaigns
    /\ issued < MaxRequests
    /\ issued' = issued + 1
    /\ requests' = Append(requests,
            Request("delete", managerCampaigns[i].id, "", "", managerCampaigns))
    /\ UNCHANGED <<ingestionVars, submissionVars, store, shellVars, managerCampaigns,
                   managerLoading, isCreateDialogOpen, newCampaign>>

\* gen_random_uuid(): an id no campaign had before
IdOf(n) == "c" \o Char("123456789", n)

RemoveAt(seq, i) == SubSeq(seq, 1, i - 1) \o SubSeq(seq, i + 1, Len(seq))

\* campaigns.filter(campaign => campaign.id !== campaignId)
Without(list, id) == LET Kept(row) == row.id # id IN SelectSeq(list, Kept)

\* campaigns.map(campaign => campaign.id === campaignId ? { ...campaign, status } : campaign)
WithStatus(list, id, status) ==
    [k \in DOMAIN list |-> IF list[k].id = id THEN [list[k] EXCEPT !.status = status]
                           ELSE list[k]]

\* the row an accepted insert into campaigns creates: DEFAULT 0 for total_contacts
CreatedRow(st, r) ==
    [id |-> IdOf(st.minted + 1), name |-> r.name, status |-> r.status, total_contacts |-> 0]

\* the tables after the store has executed request r
Served(st, r) ==
    CASE r.kind = "fetch"  -> st
      [] r.kind = "create" -> [st EXCEPT !.campaigns = Append(@, CreatedRow(st, r)),
                                         !.minted = @ + 1]
      [] r.kind = "update" -> [st EXCEPT !.campaigns = WithStatus(@, r.id, r.status)]
      [] r.kind = "delete" -> [st EXCEPT !.campaigns = Without(@, r.id),
                                         !.contacts = {c \in @ : c.campaign_id # r.id}]

\* the rows the store returns for request r
ServedData(st, r) ==
    CASE r.kind = "fetch"  -> Reverse(st.campaigns)
      [] r.kind = "create" -> <<CreatedRow(st, r)>>
      [] OTHER -> <<>>

\* the store executes a request it has received and answers without error
StoreAccepts(i) ==
    /\ i \in DOMAIN requests
    /\ requests[i].phase = "sent"
    /\ requests[i].kind \in {"create", "update"} => StatusCheck(requests[i].status)
    /\ store' = Served(store, requests[i])
    /\ requests' = [requests EXCEPT ![i].phase = "ok",
                                    ![i].data = ServedData(store, requests[i])]
    /\ UNCHANGED <<ingestionVars, submissionVars, shellVars, managerCampaigns,
                   managerLoading, isCreateDialogOpen, newCampaign, issued>>

\* the store answers a request with an error and executes nothing
StoreRejects(i) ==
    /\ i \in DOMAIN requests
    /\ requests[i].phase = "sent"
    /\ requests' = [requests EXCEPT ![i].phase = "error"]
    /\ UNCHANGED <<ingestionVars, submissionVars, store, shellVars, managerCampaigns,
                   managerLoading, isCreateDialogOpen, newCampaign, issued>>

\* the notification the continuation of request r issues, if any
AnswerToast(r) ==
    CASE r.kind = "fetch"  -> IF r.phase = "ok" THEN toast ELSE FetchFailedToast
      [] r.kind = "create" -> IF r.phase = "ok" THEN CreatedToast ELSE CreateFailedToast
      [] r.kind = "update" -> IF r.phase = "ok" THEN StatusToast(r.status) ELSE StatusFailedToast
      [] r.kind = "delete" -> IF r.phase = "ok" THEN DeletedToast ELSE DeleteFailedToast

\* the argument of setCampaigns in the continuation of the accepted request r
AnswerCampaigns(r) ==
    CASE r.kind = "fetch"  -> r.data
      [] r.kind = "create" -> r.data \o r.captured
      [] r.kind = "update" -> WithStatus(r.captured, r.id, r.status)
      [] r.kind = "delete" -> Without(r.captured, r.id)

\* the await of a handler resumes with the store's answer: the rest of its try block or
\* its catch block, then (fetchCampaigns) finally; the setters of an unmounted instance
\* have no effect
Answered(i) ==
    /\ i \in DOMAIN requests
    /\ requests[i].phase \in {"ok", "error"}
    /\ LET r == requests[i]
           live == ~r.orphan
       IN  /\ requests' = RemoveAt(requests, i)
           /\ toast' = AnswerToast(r)
           /\ managerCampaigns' = IF live /\ r.phase = "ok" THEN AnswerCampaigns(r)
                                  ELSE managerCampaigns
           /\ managerLoading' = IF live /\ r.kind = "fetch" THEN FALSE ELSE managerLoading
           /\ newCampaign' = IF live /\ r.kind = "create" /\ r.phase = "ok" THEN EmptyForm
                             ELSE newCampaign
           /\ isCreateDialogOpen' = IF live /\ r.kind = "create" /\ r.phase = "ok" THEN FALSE
                                    ELSE isCreateDialogOpen
    /\ UNCHANGED <<fileInput, file, contacts, validContacts, invalidContacts, isProcessing,
                   uploadProgress, pc, frame>>
    /\ UNCHANGED <<submissionVars, store, shellVars, issued>>

\* the store holds one campaign when the page is first loaded
OneCampaignStore ==
    [campaigns |-> SubSeq(InitialCampaigns, 1, 1), contacts |-> {}, minted |-> 1]

InitShell == ViewAtStart /\ store = OneCampaignStore

\* the dashboard behind its gate: the password form, the tabs, logout, and the
\* campaigns page mounting with its fetch
NextShell ==
    \/ \E p \in PasswordPool : setPassword(p)
    \/ handleSubmit
    \/ \E tab \in Tabs : onTabChange(tab)
    \/ handleLogout
    \/ Reload
    \/ \E i \in 1..MaxRequests : StoreAccepts(i)
    \/ \E i \in 1..MaxRequests : StoreRejects(i)
    \/ \E i \in 1..MaxRequests : Answered(i)

SpecShell == InitShell /\ [][NextShell]_vars

\* the campaigns page right after the password was accepted and its tab opened
InitManager ==
    /\ UploadUnmounted
    /\ store = OneCampaignStore
    /\ isAuthenticated = TRUE
    /\ adminFlag = Some("true")
    /\ activeTab = "campaigns"
    /\ password = ""
    /\ managerCampaigns = <<>>
    /\ managerLoading = TRUE
    /\ isCreateDialogOpen = FALSE
    /\ newCampaign = EmptyForm
    /\ requests = <<FetchRequest>>
    /\ issued = 1

\* the store holding its one campaign in the status s
StoreIn(s) == [OneCampaignStore EXCEPT !.campaigns[1].status = s]

\* the campaigns page once its fetch was answered with the store's rows; the one
\* campaign of the store is in any status the table admits
InitLoaded ==
    /\ UploadUnmounted
    /\ \E s \in {"draft", "active", "paused", "completed"} :
          /\ StatusCheck(s)
          /\ store = StoreIn(s)
          /\ managerCampaigns = ServedData(StoreIn(s), FetchRequest)
    /\ isAuthenticated = TRUE
    /\ adminFlag = Some("true")
    /\ activeTab = "campaigns"
    /\ password = ""
    /\ managerLoading = FALSE
    /\ isCreateDialogOpen = FALSE
    /\ newCampaign = EmptyForm
    /\ requests = <<>>
    /\ issued = 1

\* the campaigns page while it stays mounted, with the store serving its requests
NextManager ==
    \/ \E b \in BOOLEAN : setIsCreateDialogOpen(b)
    \/ \E name \in NamePool : setNewCampaign(name)
    \/ createCampaign
    \/ \E i \in 1..MaxCampaigns : updateCampaignStatus(i)
    \/ \E i \in 1..MaxCampaigns : deleteCampaign(i)
    \/ \E i \in 1..MaxRequests : StoreAccepts(i)
    \/ \E i \in 1..MaxRequests : StoreRejects(i)
    \/ \E i \in 1..MaxRequests : Answered(i)

SpecManager == InitManager /\ [][NextManager]_vars

SpecLoaded == InitLoaded /\ [][NextManager]_vars

-----------------------------------------------------------------------------
(* What the file itself says, read independently of the row loop            *)

\* the lines after the header line
RawDataLines(text) == LET lines == Split(text, "\n") IN SubSeq(lines, 2, Len(lines))

\* the line has a cell that is not empty once parsed and trimmed
LineIsNonBlank(line) ==
    LET r == ParseLine(line) IN \E j \in 1..Len(r) : Trim(r[j]) # ""

\* the line has no cell at the zero-based position idx, or a blank one
EmailCellBlank(line, idx) ==
    LET r == ParseLine(line) IN idx < 0 \/ idx + 1 > Len(r) \/ Trim(r[idx + 1]) = ""

ExpectedCounts ==
    [f \in Files |->
        LET lines == RawDataLines(f.text)
            nonBlank == {i \in 1..Len(lines) : LineIsNonBlank(lines[i])}
            idx == ParsedFiles[f].cols.email
        IN  [nonBlank |-> Cardinality(nonBlank),
             blankEmail |-> Cardinality({i \in nonBlank : EmailCellBlank(lines[i], idx)})]]

\* one or more characters that are neither white space nor '@', then '@', then one
\* or more such characters, then '.', then one or more such characters
AddressShape(s) ==
    \E i \in 2..Len(s) : \E j \in (i + 2)..(Len(s) - 1) :
        /\ Char(s, i) = "@"
        /\ Char(s, j) = "."
        /\ \A k \in (1..Len(s)) \ {i} : Char(s, k) \notin {" ", "\t", "\r", "\n", "@"}

IsShaped(c) == AddressShape(c.email)
IsNotShaped(c) == ~AddressShape(c.email)

ProbeAlphabet == {"a", "@", ".", " "}

RECURSIVE StringsOfLen(_)
StringsOfLen(n) ==
    IF n = 0 THEN {""} ELSE {c \o s : c \in ProbeAlphabet, s \in StringsOfLen(n - 1)}

ProbeStrings == UNION {StringsOfLen(n) : n \in 0..MaxProbeLen}

ProbeAgreement == \A s \in ProbeStrings : validateEmail(s) <=> AddressShape(s)

\* the candidates of the lines, in line order
RECURSIVE CandidatesFrom(_, _)
CandidatesFrom(lines, cols) ==
    IF Len(lines) = 0 THEN <<>>
    ELSE LET r == ParseLine(Head(lines))
             rest == CandidatesFrom(Tail(lines), cols)
         IN  IF LineIsNonBlank(Head(lines)) /\ ~EmailCellBlank(Head(lines), cols.email)
             THEN <<MakeContact(Trim(r[cols.email + 1]), r, cols)>> \o rest
             ELSE rest

ExpectedLists ==
    [f \in Files |->
        LET c == CandidatesFrom(RawDataLines(f.text), ParsedFiles[f].cols)
        IN  [valid |-> SelectSeq(c, IsShaped), invalid |-> SelectSeq(c, IsNotShaped)]]

\* processFile completes an ingestion whose email column was resolved
Completes == pc = "rows" /\ pc' = "idle"

\* the view shows the outcome of a completed ingestion of `file`
ShowsOutcome == pc = "idle" /\ toast.title = "File processed"

-----------------------------------------------------------------------------
(* C1: when processFile completes on a CSV file whose header resolves an    *)
(* email column, the valid contacts plus the invalid contacts plus the data *)
(* rows skipped for a blank email cell are as many as the data rows that    *)
(* have a non-empty parsed cell; the header row is not counted.             *)
C1_Conservation ==
    [][Completes =>
        /\ Len(validContacts') + Len(invalidContacts') + frame.skipped
              = ExpectedCounts[file].nonBlank
        /\ frame.skipped = ExpectedCounts[file].blankEmail]_vars

C1_Witness ==
    /\ ShowsOutcome
    /\ ExpectedCounts[file].nonBlank = 2
    /\ ExpectedCounts[file].blankEmail = 1
    /\ Len(validContacts) = 1
    /\ Len(RawDataLines(file.text)) = 2

(* C2: valid and invalid partition the candidates: each candidate is in     *)
(* exactly one list, in valid exactly when its email has the address shape; *)
(* validateEmail decides the address shape on every probe string.           *)
Partitions(all, v, i) == v = SelectSeq(all, IsShaped) /\ i = SelectSeq(all, IsNotShaped)

C2_Partition ==
    /\ Partitions(contacts, validContacts, invalidContacts)
    /\ Partitions(frame.processedContacts, frame.valid, frame.invalid)
    /\ Len(frame.valid) + Len(frame.invalid) = Len(frame.processedContacts)
    /\ ProbeAgreement

C2_Witness ==
    /\ ShowsOutcome
    /\ Len(validContacts) = 1
    /\ Len(invalidContacts) = 1
    /\ Len(contacts) = 2

(* C3: within valid and within invalid the contacts stand in the order of   *)
(* their source data rows, and a row contributes at most one entry.         *)
C3_OrderPreserved ==
    [][Completes =>
        /\ validContacts' = ExpectedLists[file].valid
        /\ invalidContacts' = ExpectedLists[file].invalid
        /\ Len(validContacts') + Len(invalidContacts') <= Len(RawDataLines(file.text))]_vars

C3_Witness ==
    /\ ShowsOutcome
    /\ Len(invalidContacts) = 2
    /\ invalidContacts[1] # invalidContacts[2]
    /\ invalidContacts = ExpectedLists[file].invalid

(* C4: when no header cell contains, in any letter case, 'email', 'e-mail'   *)
(* or 'mail', the ingestion aborts with the missing-column notification, no *)
(* data row is processed and the view's three lists are left as they were.  *)
SameLetter(a, b) ==
    \/ a = b
    \/ \E n \in 1..Len(UpperAlphabet) :
          {a, b} = {Char(UpperAlphabet, n), Char(LowerAlphabet, n)}

ContainsIgnoringCase(cell, k) ==
    \E i \in 0..(Len(cell) - Len(k)) :
        \A q \in 1..Len(k) : SameLetter(Char(cell, i + q), Char(k, q))

ContainsAnyIgnoringCase(cell, keywords) ==
    \E k \in keywords : ContainsIgnoringCase(cell, k)

HeaderLine(text) == Head(Split(text, "\n"))

HasMailLikeHeader ==
    [f \in Files |->
        LET cells == Split(HeaderLine(f.text), ",")
        IN  \E j \in 1..Len(cells) :
                ContainsAnyIgnoringCase(cells[j], {"email", "e-mail", "mail"})]

C4_MissingEmailAborts ==
    [][(pc = "parse" /\ EndsWith(frame.file.name, ".csv") /\ ~HasMailLikeHeader[frame.file])
        => /\ pc' = "idle"
           /\ toast' = NoEmailColumnToast
           /\ frame' = NoFrame
           /\ uploadProgress' = Zero
           /\ ~isProcessing'
           /\ UNCHANGED <<contacts, validContacts, invalidContacts>>]_vars

C4_Witness ==
    /\ pc = "idle"
    /\ toast = NoEmailColumnToast
    /\ file.name = "contacts.csv"
    /\ ~HasMailLikeHeader[file]
    /\ Len(RawDataLines(file.text)) = 1
    /\ Len(validContacts) = 1
    /\ Len(invalidContacts) = 1

(* C5: every contact of valid, invalid and contacts has a non-empty email;  *)
(* a data row whose email cell is missing or blank once trimmed yields no   *)
(* candidate and is counted in neither list.                                *)
HasEmailCell(row, idx) == idx >= 0 /\ idx + 1 <= Len(row) /\ Trim(row[idx + 1]) # ""

AllHaveEmail(list) == \A k \in 1..Len(list) : Trim(list[k].email) # ""

RowsWithEmail ==
    Cardinality({k \in 1..frame.index : HasEmailCell(frame.dataRows[k], frame.cols.email)})

C5_EmailMandatory ==
    /\ AllHaveEmail(contacts)
    /\ AllHaveEmail(validContacts)
    /\ AllHaveEmail(invalidContacts)
    /\ AllHaveEmail(frame.processedContacts)
    /\ AllHaveEmail(frame.valid)
    /\ AllHaveEmail(frame.invalid)
    /\ pc = "rows" =>
          /\ Len(frame.processedContacts) = RowsWithEmail
          /\ Len(frame.valid) + Len(frame.invalid) = RowsWithEmail

C5_Witness ==
    /\ pc = "rows"
    /\ frame.index = 2
    /\ frame.processedContacts = <<>>
    /\ \E k \in 1..2 : Len(frame.dataRows[k]) <= frame.cols.email
    /\ \E k \in 1..2 : /\ Len(frame.dataRows[k]) > frame.cols.email
                       /\ Trim(frame.dataRows[k][frame.cols.email + 1]) = ""

(* C6: each field resolves to the smallest index of a header cell that      *)
(* contains one of its keywords, or to none; fields resolve independently,  *)
(* so one header cell can be resolved for more than one field.              *)
FirstMatch(cells, keywords) ==
    LET hits == {j \in 1..Len(cells) : ContainsAnyIgnoringCase(cells[j], keywords)}
    IN  IF hits = {} THEN -1 ELSE (CHOOSE j \in hits : \A k \in hits : j <= k) - 1

ExpectedColumns ==
    [f \in Files |->
        LET cells == ParseLine(HeaderLine(f.text))
        IN  [email      |-> FirstMatch(cells, {"email", "e-mail", "mail"}),
             first_name |-> FirstMatch(cells, {"first", "fname", "given"}),
             last_name  |-> FirstMatch(cells, {"last", "lname", "surname", "family"}),
             company    |-> FirstMatch(cells, {"company", "organization", "business"}),
             title      |-> FirstMatch(cells, {"title", "position", "job"})]]

C6_FirstMatchWins == pc = "rows" => frame.cols = ExpectedColumns[frame.file]

C6_Witness ==
    /\ pc = "rows"
    /\ frame.cols.email = 0
    /\ frame.cols.company = 0
    /\ frame.cols.first_name = 1
    /\ frame.cols.title = -1

(* C7: two header rows that differ only in letter case resolve to the same  *)
(* columns, and so give the same valid and invalid lists for the same data  *)
(* rows: the ingestion of a file ends as the ingestion of the same file     *)
(* with its header line in upper case, or in lower case, would.             *)
RECURSIVE MapLetters(_, _, _)
MapLetters(s, from, to) ==
    IF Len(s) = 0 THEN s
    ELSE LET c == Char(s, 1)
             hit == {n \in 1..Len(from) : Char(from, n) = c}
         IN  (IF hit = {} THEN c ELSE Char(to, CHOOSE n \in hit : TRUE))
                 \o MapLetters(Drop(s, 1), from, to)

HeaderCaseVariants(f) ==
    LET h == HeaderLine(f.text)
        data == RawDataLines(f.text)
    IN  {[f EXCEPT !.text = JoinLines(<<v>> \o data)] :
            v \in {MapLetters(h, LowerAlphabet, UpperAlphabet),
                   MapLetters(h, UpperAlphabet, LowerAlphabet)}}

RECURSIVE RunRows(_)
RunRows(fr) ==
    IF fr.index = Len(fr.dataRows) THEN fr
    ELSE RunRows(RowStep(fr, fr.dataRows[fr.index + 1]))

\* how processFile ends on the text of f
OutcomeOf(f) ==
    LET p == ParseFile(f)
        end == RunRows([NoFrame EXCEPT !.file = f, !.dataRows = p.dataRows, !.cols = p.cols])
    IN  IF MissingEmailColumn(p.cols)
        THEN [aborted |-> TRUE, cols |-> p.cols, valid |-> <<>>, invalid |-> <<>>]
        ELSE [aborted |-> FALSE, cols |-> p.cols, valid |-> end.valid,
              invalid |-> end.invalid]

VariantOutcomes ==
    [f \in {g \in Files : EndsWith(g.name, ".csv")} |->
        {OutcomeOf(v) : v \in HeaderCaseVariants(f)}]

HasMixedCaseHeader(f) == Cardinality(HeaderCaseVariants(f) \cup {f}) = 3

C7_CaseInsensitive ==
    [][/\ (pc = "parse" /\ EndsWith(frame.file.name, ".csv")) =>
            \A o \in VariantOutcomes[frame.file] :
                /\ o.aborted <=> pc' = "idle"
                /\ ~o.aborted => frame'.cols = o.cols
       /\ Completes =>
            \A o \in VariantOutcomes[file] :
                /\ ~o.aborted
                /\ validContacts' = o.valid
                /\ invalidContacts' = o.invalid]_vars

C7_Witness ==
    /\ ShowsOutcome
    /\ HasMixedCaseHeader(file)
    /\ Len(validContacts) = 1
    /\ Len(invalidContacts) = 1

(* C8: in an ingestion of N >= 1 data rows the progress reported for the    *)
(* row of index i is (i + 1) / N * 100, the values reported from row to row *)
(* never decrease, and the value is exactly 100 once the last row is done.  *)
Leq(a, b) == a.num * b.den <= b.num * a.den

HasSuffix(name, suffix) ==
    \E n \in 0..Len(name) : SubSeq(name, n + 1, Len(name)) = suffix

C9_UnsupportedType ==
    [][(fileInput' # fileInput /\ fileInput' # NoFile
            /\ ~HasSuffix(fileInput'.name, ".csv") /\ ~HasSuffix(fileInput'.name, ".xlsx"))
        => /\ toast' = InvalidTypeToast
           /\ UNCHANGED <<file, contacts, validContacts, invalidContacts, uploadProgress,
                          isProcessing, pc, frame>>]_vars

C9_Witness ==
    /\ fileInput.name = "notes.txt"
    /\ toast = InvalidTypeToast
    /\ file.name = "contacts.csv"
    /\ Len(validContacts) = 1
    /\ Len(invalidContacts) = 1
    /\ pc = "idle"

(* C10: a file whose name ends in '.xlsx' is rejected by processFile with   *)
(* the not-yet-supported notification: no row is parsed or processed, the   *)
(* valid and invalid lists are not replaced, and the processing flag is     *)
(* false when processFile returns.                                          *)
C10_XlsxRejected ==
    [][(pc = "parse" /\ HasSuffix(frame.file.name, ".xlsx"))
        => /\ toast' = XlsxToast
           /\ pc' = "idle"
           /\ frame' = NoFrame
           /\ ~isProcessing'
           /\ ParsedFiles[frame.file].dataRows = <<>>
           /\ UNCHANGED <<contacts, validContacts, invalidContacts>>]_vars

C10_Witness ==
    /\ pc = "idle"
    /\ toast = XlsxToast
    /\ file.name = "contacts.xlsx"
    /\ ~isProcessing
    /\ Len(validContacts) = 1
    /\ Len(invalidContacts) = 1

-----------------------------------------------------------------------------
(* Submission, read from the store and the view                             *)

StoredKeys == {<<r.campaign_id, r.email>> : r \in store.contacts}

\* the contacts the store holds for campaign c
StoredFor(c) == {r \in store.contacts : r.campaign_id = c}

\* the batch awaiting its insert names an address the store already holds for the
\* campaign it is sent to
RepeatsStoredEmail ==
    \E i \in DOMAIN uploadFrame.rows : <<uploadFrame.campaign, uploadFrame.rows[i].email>> \in StoredKeys

\* the pending insert of a submission is answered with an error
InsertFails == uploadPc = "inserting" /\ uploadPc' = "idle"

(* C11: an insert that repeats an address the store already holds for the   *)
(* campaign is never accepted, and when the store rejects the insert of a   *)
(* submission the failure notification that mentions addresses possibly     *)
(* existing already is issued, the store is unchanged, and the valid,       *)
(* invalid and contacts lists, the selected file and the selected campaign  *)
(* are what they were before.                                               *)
C11_InsertRejected ==
    [][/\ (uploadPc = "inserting" /\ RepeatsStoredEmail)
            => (uploadPc' # "updating" /\ store' = store)
       /\ InsertFails
            => /\ toast' = UploadFailedToast
               /\ toast'.title = "Error"
               /\ Includes(toast'.description, "emails might already exist")
               /\ store' = store
               /\ UNCHANGED <<validContacts, invalidContacts, contacts, file,
                              selectedCampaign>>]_vars

\* both campaigns hold the one valid address of the list through submissions that
\* succeeded, and the submission of a list that repeats it has failed
C11_Witness ==
    /\ uploadPc = "idle"
    /\ toast = UploadFailedToast
    /\ Len(validContacts) = 1
    /\ Len(invalidContacts) = 1
    /\ selectedCampaign # ""
    /\ StoredKeys = {<<"c1", validContacts[1].email>>, <<"c2", validContacts[1].email>>}
    /\ \A i \in DOMAIN store.campaigns : store.campaigns[i].total_contacts = 1

\* a submission ends, and how: the success notification or another one
SubmissionEnds == uploadPc # "idle" /\ uploadPc' = "idle"

(* C12: when a submission ends with the success notification (the insert    *)
(* and the update of the campaign's count both succeeded) the file is null, *)
(* the contacts, valid and invalid lists are empty and no campaign is       *)
(* selected; while a submission is pending, and when it ends in any other   *)
(* way, the file and the three lists are what they were, and the ending     *)
(* step leaves the selected campaign as it was.                             *)
C12_DiscardOnSuccessOnly ==
    [][/\ (uploadPc # "idle" /\ ~SubmissionEnds)
            => UNCHANGED <<file, contacts, validContacts, invalidContacts>>
       /\ SubmissionEnds
            => IF toast'.title = "Success"
               THEN /\ uploadPc = "updating"
                    /\ file' = NoFile
                    /\ contacts' = <<>>
                    /\ validContacts' = <<>>
                    /\ invalidContacts' = <<>>
                    /\ selectedCampaign' = ""
               ELSE UNCHANGED <<file, contacts, validContacts, invalidContacts,
                                selectedCampaign>>]_vars

\* a list of two valid contacts has been submitted with success
C12_Witness ==
    /\ uploadPc = "idle"
    /\ toast = UploadedToast(2)
    /\ file = NoFile
    /\ contacts = <<>> /\ validContacts = <<>> /\ invalidContacts = <<>>
    /\ selectedCampaign = ""
    /\ Cardinality(store.contacts) = 2

\* a processFile activation is under way before or after the step
Ingesting == pc # "idle" \/ pc' # "idle"

(* C13: no step of an ingestion, from the selection of the file to the end  *)
(* of processFile by any path, changes the store's contacts or campaigns;   *)
(* the store's contacts change only in the step that answers the insert of  *)
(* an uploadContacts activation, and its campaigns only in the step that    *)
(* answers the update of one.                                               *)
C13_IngestionLeavesStore ==
    [][/\ (Ingesting \/ (fileInput' # fileInput /\ uploadPc = "idle")) => store' = store
       /\ store'.contacts # store.contacts => (uploadPc = "inserting" /\ pc = "idle")
       /\ store'.campaigns # store.campaigns => (uploadPc = "updating" /\ pc = "idle")]_vars

\* a list of two valid contacts was ingested while the store held one contact, and
\* the store still holds that one
C13_Witness ==
    /\ ShowsOutcome
    /\ Len(validContacts) = 2
    /\ Cardinality(store.contacts) = 1
    /\ \A r \in store.contacts : r.email # validContacts[2].email

\* the rows of the pending submission, as a set
PendingRows == {uploadFrame.rows[i] : i \in DOMAIN uploadFrame.rows}

\* the pending update of a submission is answered with an error
UpdateFails == uploadPc = "updating" /\ uploadPc' = "idle" /\ toast'.title # "Success"

(* C14: when the insert of a submission has succeeded its rows are in the   *)
(* store and the campaigns are as before; when the update of the campaign's *)
(* count then fails, the store is left as it is (the inserted rows stay,    *)
(* total_contacts keeps its value), the failure notification is issued and  *)
(* the file, the three lists and the selected campaign are not cleared.     *)
C14_NoRollback ==
    [][/\ (uploadPc = "inserting" /\ uploadPc' = "updating")
            => (PendingRows \subseteq store'.contacts /\ store'.campaigns = store.campaigns)
       /\ UpdateFails
            => /\ store' = store
               /\ PendingRows \subseteq store'.contacts
               /\ toast' = UploadFailedToast
               /\ UNCHANGED <<file, contacts, validContacts, invalidContacts,
                              selectedCampaign>>]_vars

\* the store holds the two contacts of the list shown, for the selected campaign, and
\* no campaign's count was ever written: their insert succeeded and the update failed
C14_Witness ==
    /\ uploadPc = "idle"
    /\ toast = UploadFailedToast
    /\ Len(validContacts) = 2
    /\ StoredKeys = {<<selectedCampaign, validContacts[i].email>> : i \in 1..2}
    /\ Cardinality(store.contacts) = 2
    /\ \A i \in DOMAIN store.campaigns : store.campaigns[i].total_contacts = 0

\* total_contacts of campaign c in the table st
TotalOf(st, c) ==
    LET i == CHOOSE k \in DOMAIN st.campaigns : st.campaigns[k].id = c
    IN  st.campaigns[i].total_contacts

HeldFor(st, c) == Cardinality({r \in st.contacts : r.campaign_id = c})

\* the pending update of a submission is answered without error
UpdateSucceeds == uploadPc = "updating" /\ uploadPc' = "idle" /\ toast'.title = "Success"

(* C15: the insert of a submission of n contacts to campaign c adds n rows  *)
(* to those the store holds for c, and when the submission succeeds         *)
(* c.total_contacts is n, whatever it was and however many contacts the     *)
(* store holds for c; no other campaign's count changes.  So after          *)
(* submissions of n1 then n2 contacts to c, total_contacts is n2 and the    *)
(* store holds n1 + n2 contacts for c.                                      *)
C15_TotalOverwritten ==
    [][LET c == uploadFrame.campaign
           n == Len(uploadFrame.rows)
       IN  /\ (uploadPc = "inserting" /\ uploadPc' = "updating")
                => HeldFor(store', c) = HeldFor(store, c) + n
           /\ UpdateSucceeds
                => /\ n > 0
                   /\ TotalOf(store', c) = n
                   /\ toast'.count = n
                   /\ store'.contacts = store.contacts
                   /\ \A d \in {"c1", "c2"} \ {c} :
                         TotalOf(store', d) = TotalOf(store, d)]_vars

\* two contacts are held for campaign c1 while its count says one: the size of the
\* batch submitted last
C15_Witness ==
    /\ uploadPc = "idle"
    /\ toast = UploadedToast(1)
    /\ HeldFor(store, "c1") = 2
    /\ TotalOf(store, "c1") = 1
    /\ HeldFor(store, "c2") = 0
    /\ TotalOf(store, "c2") = 0

\* the view is back at rest with an error notification
EndsNotified(position) == position = "idle" /\ toast'.title = "Error" /\ ~isProcessing'

(* C16: a submission has issued exactly one insert while one is pending and *)
(* never more than one insert or one update; every failure (a file whose    *)
(* read throws, an insert answered with an error, an update answered with   *)
(* an error) ends the activation in the same step with an error             *)
(* notification, with no request issued again.                              *)
C16_CaughtNotRetried ==
    /\ [](/\ uploadFrame.inserts <= 1
          /\ uploadFrame.updates <= 1
          /\ (uploadPc = "idle") = (uploadFrame.inserts = 0)
          /\ (uploadPc = "updating") = (uploadFrame.updates = 1))
    /\ [][/\ (pc = "reading" /\ ~frame.file.readable /\ <<pc, frame>>' # <<pc, frame>>)
                => EndsNotified(pc')
          /\ (uploadPc = "inserting" /\ uploadPc' # "updating"
                /\ <<uploadPc, uploadFrame>>' # <<uploadPc, uploadFrame>>)
                => (EndsNotified(uploadPc') /\ store' = store)
          /\ (uploadPc = "updating" /\ <<uploadPc, uploadFrame>>' # <<uploadPc, uploadFrame>>
                /\ toast'.title # "Success")
                => (EndsNotified(uploadPc') /\ store' = store)]_vars

\* the insert of a list of two contacts was answered with an error: the store is as
\* it was at the start and the view is at rest with the failure notification
C16_Witness ==
    /\ uploadPc = "idle"
    /\ uploadFrame = NoUpload
    /\ toast = UploadFailedToast
    /\ ~isProcessing
    /\ Len(validContacts) = 2
    /\ store = InitialStore

(* C17: the processing flag is true exactly while a processFile or an       *)
(* uploadContacts activation is under way: from its start, through every    *)
(* state in which a read or a store call is pending, and false as soon as   *)
(* the activation has ended, by whichever path.                             *)
C17_ProcessingFlag == isProcessing = (pc # "idle" \/ uploadPc # "idle")

\* the update of a submission is pending after its insert was accepted
C17_Witness ==
    /\ isProcessing
    /\ uploadPc = "updating"
    /\ pc = "idle"
    /\ PendingRows \subseteq store.contacts
    /\ Len(validContacts) = 2

\* processFile on f ends before its row loop: the read throws, the name selects the
\* spreadsheet branch, or no header cell is mail-like
IngestionAborts(f) ==
    \/ ~f.readable
    \/ (HasSuffix(f.name, ".xlsx") /\ ~HasSuffix(f.name, ".csv"))
    \/ ~HasMailLikeHeader[f]

\* the lists an ingestion of f alone yields
ResultOf(f) ==
    IF IngestionAborts(f) THEN [valid |-> <<>>, invalid |-> <<>>] ELSE ExpectedLists[f]

(* C18: whenever the view is at rest after file selections, the valid and   *)
(* invalid lists are those an ingestion of the most recently ingested file  *)
(* alone yields, and the contacts list holds as many entries as the two;    *)
(* when that ingestion aborted, the three lists are empty.                  *)
C18_MostRecentFileOnly ==
    (pc = "idle" /\ file # NoFile)
        => /\ validContacts = ResultOf(file).valid
           /\ invalidContacts = ResultOf(file).invalid
           /\ Len(contacts) = Len(ResultOf(file).valid) + Len(ResultOf(file).invalid)

\* the read of the file selected last threw, and the lists shown with it are those of
\* the file ingested before it
C18_Witness ==
    /\ pc = "idle"
    /\ file.name = "gone.csv"
    /\ toast = ProcessFailedToast
    /\ Len(validContacts) = 1
    /\ Len(invalidContacts) = 1
    /\ Len(contacts) = 2

-----------------------------------------------------------------------------
(* The gate and the campaigns page, read from the outside                   *)

\* the one password the administrators share (SUPER_ADMIN_PASS)
SharedPassword == "hunter2"

\* the persisted flag says authenticated
FlagSet == adminFlag = <<"true">>

(* C19: the persisted admin_authenticated flag is set, and the              *)
(* authenticated state entered, only by a step that submits the shared      *)
(* password (or, for the state, on a load that finds the flag set); and     *)
(* while the state is unauthenticated only the password form is rendered,   *)
(* no tab content.                                                          *)
C19_PasswordGate ==
    [][/\ (FlagSet' /\ ~FlagSet) => password = SharedPassword
       /\ (isAuthenticated' /\ ~isAuthenticated) => (password = SharedPassword \/ FlagSet)
       /\ ~isAuthenticated' => renderContent' = "AdminAuth"]_vars

LifecycleStatuses == {"draft", "active", "paused", "completed"}

AllInLifecycle(list) == \A k \in DOMAIN list : list[k].status \in LifecycleStatuses

StoredIds(st) == {st.campaigns[k].id : k \in DOMAIN st.campaigns}

(* C20: in every reachable state the status of every campaign of the store, *)
(* and of every campaign in CampaignManager's list, is one of draft,        *)
(* active, paused, completed; and a campaign that enters the store through  *)
(* createCampaign has status draft, in the store and in the row handed back *)
(* to the page.                                                             *)
C20_StatusDomain ==
    /\ [](AllInLifecycle(store.campaigns) /\ AllInLifecycle(managerCampaigns))
    /\ [][\A k \in DOMAIN store'.campaigns :
            store'.campaigns[k].id \notin StoredIds(store)
                => /\ store'.campaigns[k].status = "draft"
                   /\ \E i \in DOMAIN requests' :
                        /\ requests'[i].kind = "create"
                        /\ requests'[i].data = <<store'.campaigns[k]>>]_vars

\* a campaign was created, then another listed campaign was activated: the page lists
\* the new campaign as draft and the store holds it as draft
C20_Witness ==
    /\ Len(store.campaigns) = 2
    /\ store.campaigns[2].status = "draft"
    /\ store.campaigns[1].status = "active"
    /\ Len(managerCampaigns) = 2
    /\ managerCampaigns[1] = store.campaigns[2]
    /\ requests = <<>>

-----------------------------------------------------------------------------
(* C21: the upload view reads the campaigns when it is mounted               *)

\* a step that opens the upload tab, rendering ContactUpload for the first time
OpensUploadView == isAuthenticated /\ activeTab # "upload" /\ activeTab' = "upload"

\* C21: whenever the upload view is mounted, the read of the campaigns is sent to the
\* store, so that its result can populate the selector or its failure be notified
C21_FetchOnMount == [][OpensUploadView => fetchPending']_vars

\* the upload tab was opened, no request is out, the selector is empty, nothing was notified
C21_Witness ==
    /\ RenderFailed
    /\ ~fetchPending
    /\ campaigns = <<>>
    /\ toast # FetchFailedToast

-----------------------------------------------------------------------------
(* C22: a parsed cell is its trimmed text less one matching pair of quotes   *)

\* the cell as written in a file of CellFiles, and as trimmed
RawCell(f) == Drop(f.text, Len(CellPrefix))

\* a text enclosed in a pair of the same quote character, and the text less that pair
IsEnclosed(t) ==
    /\ Len(t) >= 2
    /\ Char(t, 1) \in {"\"", "'"}
    /\ Char(t, Len(t)) = Char(t, 1)

PairStripped(t) == IF IsEnclosed(t) THEN SubSeq(t, 2, Len(t) - 1) ELSE t

\* processFile has parsed a file of CellFiles and stands before its row
CellParsed == pc = "rows" /\ frame.file.name = "cells.csv"

\* C22: each parsed cell is its trimmed text with one matching pair of enclosing quotes
\* removed: it differs from the trimmed text only when that text begins and ends with
\* the same quote character, and then by exactly that pair
C22_MatchingPairOnly ==
    CellParsed => frame.dataRows[1][2] = PairStripped(Trim(RawCell(frame.file)))

\* a cell that opens with a quote and does not close it was parsed to its letters
C22_Witness ==
    /\ CellParsed
    /\ RawCell(frame.file) = "\"aa"
    /\ frame.dataRows[1][2] = "aa"

-----------------------------------------------------------------------------
(* C23: the rows handed to insert are complete                               *)

\* a field of a row: a string that is not empty, or null
IsTextOrNull(v) == v = <<"null", "null">> \/ (Len(v) = 1 /\ v[1] # "")

\* a field of a row as sent for the contact's value: null for a value that is
\* undefined or empty
SentFor(v) == IF v = <<>> \/ v = <<"">> THEN <<"null", "null">> ELSE v

\* a row names the campaign and the address and has each of the four optional fields,
\* last_name and title (columns that UploadHeader does not resolve) as null
IsCompleteRow(row, campaign) ==
    /\ DOMAIN row = {"campaign_id", "email", "first_name", "last_name", "company", "title"}
    /\ row.campaign_id = campaign
    /\ campaign # ""
    /\ row.email # ""
    /\ \A k \in {"first_name", "last_name", "company", "title"} : IsTextOrNull(row[k])
    /\ row.last_name = <<"null", "null">>
    /\ row.title = <<"null", "null">>

\* uploadContacts gets past its guard and sends its insert
SendsInsert == uploadPc = "idle" /\ uploadPc' = "inserting"

\* C23: every row passed to the insert carries the selected campaign's id, the
\* contact's email and all four of first_name, last_name, company and title, each a
\* non-empty string or null and none left out; a field whose column was not resolved
\* is null; the rows follow the valid contacts one for one
C23_CompleteRows ==
    [][SendsInsert =>
        /\ Len(uploadFrame'.rows) = Len(validContacts)
        /\ \A i \in DOMAIN validContacts :
              /\ IsCompleteRow(uploadFrame'.rows[i], selectedCampaign)
              /\ uploadFrame'.rows[i].email = validContacts[i].email
              /\ \A k \in {"first_name", "last_name", "company", "title"} :
                    uploadFrame'.rows[i][k] = SentFor(validContacts[i][k])]_vars

\* an insert is out with a row whose first name is a string, whose company cell was
\* blank and whose last name and title had no column
C23_Witness ==
    /\ uploadPc = "inserting"
    /\ \E i \in DOMAIN uploadFrame.rows :
          /\ uploadFrame.rows[i].first_name = <<"Cy">>
          /\ uploadFrame.rows[i].company = <<"null", "null">>
          /\ uploadFrame.rows[i].last_name = <<"null", "null">>
          /\ validContacts[i].company = <<"">>
          /\ validContacts[i].last_name = <<>>

-----------------------------------------------------------------------------
(* C24: uploadContacts refuses without a campaign or without valid contacts  *)

\* uploadContacts is called with no campaign selected or with no valid contact
CalledUnready ==
    /\ uploadContactsCalled
    /\ (selectedCampaign = "" \/ validContacts = <<>>)

\* C24: a call of uploadContacts with no campaign selected or with an empty valid list
\* issues the error notification and does nothing else: no request goes to the store,
\* the processing flag is not set, the lists and the selection stay as they are
C24_GuardRefuses ==
    [][CalledUnready =>
        /\ toast' = [title |-> "Error",
                     description |->
                         "Please select a campaign and ensure you have valid contacts"]
        /\ isProcessing' = FALSE
        /\ uploadPc' = "idle"
        /\ store' = store
        /\ UNCHANGED <<contacts, validContacts, invalidContacts, selectedCampaign, file,
                       uploadFrame>>]_vars

\* the notification stands in a view at rest that holds valid contacts, no selection
\* and an untouched store
C24_Witness ==
    /\ toast.description = "Please select a campaign and ensure you have valid contacts"
    /\ selectedCampaign = ""
    /\ Len(validContacts) > 0
    /\ ~isProcessing
    /\ uploadPc = "idle"
    /\ store = InitialStore

-----------------------------------------------------------------------------
(* C25: one ingestion or submission at a time                                *)

\* a processFile activation, or an uploadContacts activation, begins
StartsIngestion == pc' = "reading" /\ (pc # "reading" \/ frame' # frame)
StartsSubmission == uploadPc' = "inserting" /\ (uploadPc # "inserting" \/ uploadFrame' # uploadFrame)

\* the reset of the file input by a submission that succeeded
ClearsInput == uploadPc = "updating" /\ uploadPc' = "idle" /\ fileInput' = NoFile

\* C25: at most one ingestion or submission is in progress in the view: while the
\* processing flag is true neither the file input nor the upload button acts, so no
\* ingestion and no submission starts, and the valid list a pending submission was
\* taken from is not replaced before its store calls have resolved; the input's
\* choice changes under a true flag only where a submission that succeeded clears it
C25_OneAtATime ==
    [][/\ ~(pc' # "idle" /\ uploadPc' # "idle")
       /\ (isProcessing => ~StartsIngestion /\ ~StartsSubmission)
       /\ (isProcessing /\ fileInput' # fileInput => ClearsInput)
       /\ (uploadPc # "idle" /\ uploadPc' # "idle" => validContacts' = validContacts)]_vars

\* the insert of two contacts is pending and nothing else is under way
C25_Witness ==
    /\ isProcessing
    /\ uploadPc = "inserting"
    /\ uploadFrame.inserts = 1
    /\ pc = "idle"
    /\ Len(uploadFrame.rows) = 2
    /\ validContacts # <<>>
    /\ store.contacts = {}

-----------------------------------------------------------------------------
(* C26: a submission whose update failed cannot be completed by retrying     *)

\* the insert that is pending repeats rows the store holds already, all of them
RetriesStoredBatch ==
    /\ uploadPc = "inserting"
    /\ uploadFrame.rows # <<>>
    /\ \A i \in DOMAIN uploadFrame.rows : uploadFrame.rows[i] \in store.contacts

\* C26: when the update of a submission fails after its insert succeeded, the view
\* keeps a valid list whose every address the store holds for that campaign; each
\* retry of that submission fails at its insert: the insert is never accepted, the
\* store (total_contacts with it) stays as it is, and the retry ends with the failure
\* notification and the file and the lists kept, never with the cleared view
C26_RetryFailsAtInsert ==
    [][/\ UpdateFails =>
            /\ validContacts' # <<>>
            /\ \A i \in DOMAIN validContacts' :
                  \E r \in store'.contacts :
                      r.campaign_id = uploadFrame.campaign /\ r.email = validContacts'[i].email
       /\ RetriesStoredBatch =>
            /\ uploadPc' # "updating"
            /\ store' = store
            /\ UNCHANGED <<file, contacts, validContacts, invalidContacts>>
            /\ (uploadPc' = "idle" =>
                    toast'.description =
                        "Failed to upload contacts. Some emails might already exist in the campaign.")]_vars

\* a retry is pending: its rows are stored, the campaign's count was never set and the
\* notification of the failed update still stands
C26_Witness ==
    /\ RetriesStoredBatch
    /\ toast.description =
          "Failed to upload contacts. Some emails might already exist in the campaign."
    /\ \A i \in DOMAIN store.campaigns :
          store.campaigns[i].id = uploadFrame.campaign => store.campaigns[i].total_contacts = 0
    /\ selectedCampaign = uploadFrame.campaign

-----------------------------------------------------------------------------
(* C27: a valid list that repeats an address cannot be submitted             *)

\* a list of contacts or of rows names one address twice
RepeatsAddress(list) == \E i, j \in DOMAIN list : i < j /\ list[i].email = list[j].email

\* the addresses of the data lines of a file of UploadFiles, line by line
AddressCells(f) ==
    LET lines == Tail(Split(f.text, "\n"))
    IN  [i \in DOMAIN lines |-> Split(lines[i], ",")[1]]

\* two lines of the file carry the same address, a well-formed one
RepeatsCell(cells) ==
    \E i, j \in DOMAIN cells : i < j /\ cells[i] = cells[j] /\ AddressShape(cells[i])

\* C27: ingestion removes no duplicate: a file whose lines repeat a well-formed address
\* yields a valid list that repeats it; and whatever campaign a list that repeats an
\* address is submitted to, its insert is never accepted: none of the batch is
\* stored and no total_contacts changes
C27_DuplicatesRejected ==
    [][/\ (Completes /\ file.name = "list.csv" /\ RepeatsCell(AddressCells(file)))
            => RepeatsAddress(validContacts')
       /\ (Completes /\ file.name = "list.csv")
            => Len(contacts') = Len(AddressCells(file))
       /\ (uploadPc = "inserting" /\ RepeatsAddress(uploadFrame.rows))
            => (uploadPc' # "updating" /\ store' = store)]_vars

\* the submission of a list that names one address twice has failed, nothing is stored
C27_Witness ==
    /\ uploadPc = "idle"
    /\ toast.description =
          "Failed to upload contacts. Some emails might already exist in the campaign."
    /\ Len(validContacts) = 2
    /\ RepeatsAddress(validContacts)
    /\ selectedCampaign # ""
    /\ store = InitialStore

-----------------------------------------------------------------------------
(* C28: the campaigns list of the page against the campaigns of the store    *)

\* the ids of a list of campaigns, each with its status
IdsWithStatus(list) == {<<list[k].id, list[k].status>> : k \in DOMAIN list}

\* the list of the page names the campaigns of the store, each once, with their status
ListAgrees(list, st) ==
    /\ IdsWithStatus(list) = IdsWithStatus(st.campaigns)
    /\ Len(list) = Len(st.campaigns)

\* the continuation of a request that the store answered with an error runs
AnsweredWithError ==
    \E i \in DOMAIN requests : requests[i].phase = "error" /\ requests' = RemoveAt(requests, i)

\* C28: from a page whose list was fetched, whenever every create, update and delete
\* that was started has been answered, the list of the page agrees with the store
\* (the same ids, the same status for each), however the operations interleave, two
\* in flight at once included; and an operation the store refused leaves the list as
\* it was
C28_ListAgrees ==
    [][/\ requests' = <<>> => ListAgrees(managerCampaigns', store')
       /\ AnsweredWithError => managerCampaigns' = managerCampaigns]_vars

\* nothing is in flight, and the page lists a campaign the store no longer holds
C28_Witness ==
    /\ requests = <<>>
    /\ managerCampaigns # <<>>
    /\ \E k \in DOMAIN managerCampaigns :
          \A j \in DOMAIN store.campaigns : store.campaigns[j].id # managerCampaigns[k].id

-----------------------------------------------------------------------------
(* C29: the status changes the page offers                                   *)

\* the status a row showing status s offers to change to
Offered(s) == IF s = "active" THEN "paused" ELSE "active"

\* a click on the status button of the row shown at position k sends its request
ClicksStatusOf(k) ==
    /\ k \in DOMAIN managerCampaigns
    /\ Len(requests') = Len(requests) + 1
    /\ requests'[Len(requests')].kind = "update"
    /\ requests'[Len(requests')].id = managerCampaigns[k].id

\* C29: the button of a row asks for paused when the row shows active and for active
\* when it shows paused, draft or completed; every change of a stored campaign's
\* status is from active to paused or from another status to active, so no campaign
\* is moved to draft or to completed, and one that has left draft stays out of it
C29_StatusMoves ==
    [][/\ \A k \in DOMAIN managerCampaigns :
             ClicksStatusOf(k) =>
                 requests'[Len(requests')].status = Offered(managerCampaigns[k].status)
       /\ \A j \in DOMAIN store.campaigns : \A k \in DOMAIN store'.campaigns :
             (store.campaigns[j].id = store'.campaigns[k].id
                 /\ store.campaigns[j].status # store'.campaigns[k].status)
             => \/ store.campaigns[j].status = "active" /\ store'.campaigns[k].status = "paused"
                \/ store.campaigns[j].status # "active" /\ store'.campaigns[k].status = "active"]_vars

\* the store has executed the request that the button of a row showing completed
\* sent: the campaign is active
C29_Witness ==
    \E i \in DOMAIN requests :
        /\ requests[i].kind = "update"
        /\ requests[i].phase = "ok"
        /\ requests[i].status = "active"
        /\ requests[i].captured[1].status = "completed"
        /\ store.campaigns[1].status = "active"

-----------------------------------------------------------------------------
(* C30: logout, and what the authenticated state rests on                    *)

\* the session is logged out; the password form accepts what was typed
LogsOut == isAuthenticated /\ ~isAuthenticated'
FormAccepts ==
    /\ ~isAuthenticated
    /\ \E k \in 1..Len(password) : Char(password, k) # " "
    /\ toast'.title = "Authentication successful"

\* C30: a logout leaves the session unauthenticated, the persisted flag absent and
\* the dashboard tab active; without the flag a session becomes authenticated only by
\* a submission the form accepts, so a page load after a logout stays unauthenticated
\* until then; the flag is set by such a submission only and removed by a logout
\* only, and in every state an authenticated session has the flag set
C30_LogoutClears ==
    [][/\ LogsOut => (adminFlag' = <<>> /\ activeTab' = "dashboard")
       /\ (~isAuthenticated /\ isAuthenticated' /\ adminFlag # <<"true">>) => FormAccepts
       /\ (adminFlag' = <<"true">> /\ adminFlag # <<"true">>) => FormAccepts
       /\ (adminFlag = <<"true">> /\ adminFlag' # <<"true">>) => LogsOut
       /\ isAuthenticated' => adminFlag' = <<"true">>]_vars

\* the page was loaded again after a logout that followed a visit of the campaigns tab
C30_Witness ==
    /\ ~isAuthenticated
    /\ adminFlag = <<>>
    /\ activeTab = "dashboard"
    /\ toast = NoToast
    /\ issued > 0

====
